---- MODULE Spec2Model ----
(***************************************************************************)
(* Models of the hooks of the repository: useCamera (src/useDebounce.js,   *)
(* section "useCamera"), useDebounce, useFetch and useMediaQuery. Each     *)
(* hook has its own specification, in which the other hooks are not        *)
(* rendered and their variables stay as they are.                          *)
(*                                                                         *)
(* useCamera: the hook's React state is the first five variables; every async *)
(* function of the hook is a task that suspends at each await of a         *)
(* platform / driver call and is resumed by the outcome of that call.      *)
(* The value requestCameraPermission() resolves to is read by no caller in *)
(* the source and is not part of the state; the files and the gallery are  *)
(* the platform's: a task's pc and path say which call on which file it    *)
(* has in flight.                                                          *)
(***************************************************************************)
EXTENDS Integers, FiniteSets, Sequences, Bags, TLC

(* ------------------------------ bounds --------------------------------- *)
MaxTasks == 2      \* async calls of the hook that may be in flight together
NumPaths == 2      \* distinct photo files the camera driver may hand out

Paths == 1..NumPaths
NoPath == 0
\* the file of a finished recording: the hook stores no video path and
\* compares none, so one file, different from every photo's, stands for them
VideoPaths == {NumPaths + 1}

Platforms == {"ios", "android"}
CameraTypes == {"back", "front"}
\* a phone whose front camera is missing: devices.front is undefined, so that
\* toggleCameraType switches between a present and an absent device
DeviceSets == {[c \in CameraTypes |-> c = "back"]}
NoError == "null"

ErrPermission == "Failed to get camera permissions"
ErrSavePhoto == "Failed to save photo"
ErrSaveVideo == "Failed to save video"
ErrCapture == "Failed to capture photo"
ErrRecord == "Failed to record video"
ErrStart == "Failed to start recording"
ErrStop == "Failed to stop recording"

VARIABLES
  cameraType,        \* useState 'back' | 'front'
  isRecording,       \* useState boolean
  photoPath,         \* useState string | null
  cameraPermission,  \* useState boolean
  error,             \* useState string | null
  platform,          \* Platform.OS
  devices,           \* useCameraDevices(): camera type -> device present
  driver,            \* the camera driver: "idle", "recording", "finishing"
  tasks,             \* the bag of async calls of the hook that are in flight
  emitted            \* what the last step showed at the hook's boundary: the
                     \* exception an awaited call threw into it, and the calls
                     \* it made to the callbacks in options
VARIABLES
  useDebounce,       \* the state of one useDebounce(value, delay) and its timers
  useFetch,          \* the state of one useFetch(url) and its requests
  useMediaQuery      \* the state of one useMediaQuery(query) and its listeners

vars == <<cameraType, isRecording, photoPath, cameraPermission, error,
          platform, devices, driver, tasks, emitted,
          useDebounce, useFetch, useMediaQuery>>

hookState == <<cameraType, isRecording, photoPath, cameraPermission, error>>
world == <<driver>>
\* what no step of useCamera changes: the platform, the devices, and the
\* other hooks
otherHooks == <<useDebounce, useFetch, useMediaQuery>>
env == <<platform, devices, otherHooks>>
cameraVars == <<cameraType, isRecording, photoPath, cameraPermission, error,
                platform, devices, driver, tasks, emitted>>

(* One async call: the hook function called (op), the await it is          *)
(* suspended at (pc), the cameraPermission it read on entry (gate), whether *)
(* camera.current was set when it reached the driver call (cam), the file   *)
(* it carries (path), and the calls it has made so far to                   *)
(* requestCameraPermission (reqs) and to the camera driver (drv).           *)
NewTask(op, pc) ==
  [op |-> op, pc |-> pc, gate |-> TRUE, cam |-> FALSE, path |-> NoPath,
   reqs |-> 0, drv |-> 0]

InFlight == BagToSet(tasks)
HasSlot == BagCardinality(tasks) < MaxTasks
Spawn(rec) == tasks' = tasks (+) SetToBag({rec})
Finish(r) == tasks' = tasks (-) SetToBag({r})
Continue(r, rec) == tasks' = (tasks (-) SetToBag({r})) (+) SetToBag({rec})

(* device = devices[cameraType]; the view mounts <Camera ref={cameraRef}>   *)
(* only when device && cameraPermission: camera.current is null otherwise. *)
device == devices[cameraType]
CameraMounted == device /\ cameraPermission

Kind(r) == IF r.op = "onRecordingFinished" THEN "video" ELSE "photo"
SaveError(r) == IF Kind(r) = "video" THEN ErrSaveVideo ELSE ErrSavePhoto

(* the first await of savePhotoToGallery / saveVideoToGallery *)
SaveEntry == IF platform = "ios" THEN "save" ELSE "copy"

(* a hook that no component renders *)
NotRendered == [mounted |-> FALSE]

Init ==
  /\ cameraType = "back"
  /\ isRecording = FALSE
  /\ photoPath = NoPath
  /\ cameraPermission = FALSE
  /\ error = NoError
  /\ platform \in Platforms
  /\ devices \in DeviceSets
  /\ driver = "idle"
  \* the mount effect has called requestCameraPermission()
  /\ tasks = SetToBag({[NewTask("requestCameraPermission", "request")
                          EXCEPT !.reqs = 1]})
  /\ emitted = <<>>
  /\ useDebounce = NotRendered
  /\ useFetch = NotRendered
  /\ useMediaQuery = NotRendered

(* ------------------------------ handleError ---------------------------- *)
OnError(errorMessage) == <<"onError", errorMessage>>
Thrown == <<"throw", "error">>

(* setError(errorMessage); options.onError?.(errorMessage) *)
handleError(errorMessage) ==
  /\ error' = errorMessage
  /\ emitted' = <<OnError(errorMessage)>>

(* catch (error) { handleError(errorMessage) }: the awaited call threw *)
Catch(errorMessage) ==
  /\ error' = errorMessage
  /\ emitted' = <<Thrown, OnError(errorMessage)>>

(* a step of the hook that reaches no callback of options *)
NoCallback == emitted' = <<>>

(* options.onPhotoTaken?.(photoPath) / options.onVideoRecorded?.(videoPath) *)
SuccessCallback(r) == IF Kind(r) = "video" THEN "onVideoRecorded" ELSE "onPhotoTaken"
Succeed(r) == emitted' = <<<<SuccessCallback(r), r.path>>>>

(* ------------------------ requestCameraPermission ---------------------- *)
requestCameraPermission ==
  /\ HasSlot
  /\ Spawn([NewTask("requestCameraPermission", "request") EXCEPT !.reqs = 1])
  /\ NoCallback
  /\ UNCHANGED <<hookState, world, env>>

(* variant: a denial is reported through handleError like a failure *)
PermissionResolved_DenialAsError(r, outcome) ==
  /\ r.pc = "request"
  /\ CASE outcome = "granted" ->
            /\ cameraPermission' = TRUE
            /\ UNCHANGED error
            /\ NoCallback
       [] outcome = "denied" ->
            /\ cameraPermission' = FALSE
            /\ handleError(ErrPermission)
       [] OTHER ->
            /\ Catch(ErrPermission)
            /\ UNCHANGED cameraPermission
  /\ Finish(r)
  /\ UNCHANGED <<cameraType, isRecording, photoPath, world, env>>

(* request(permission) settles; a task of takePhoto / startRecording that  *)
(* awaited requestCameraPermission() then returns                          *)
PermissionResolved(r, outcome) ==
  /\ r.pc = "request"
  /\ CASE outcome = "granted" ->
            /\ cameraPermission' = TRUE
            /\ UNCHANGED error
            /\ NoCallback
       [] outcome = "denied" ->
            /\ cameraPermission' = FALSE
            /\ UNCHANGED error
            /\ NoCallback
       [] OTHER ->
            /\ Catch(ErrPermission)
            /\ UNCHANGED cameraPermission
  /\ Finish(r)
  /\ UNCHANGED <<cameraType, isRecording, photoPath, world, env>>

(* ------------------ savePhotoToGallery / saveVideoToGallery ------------ *)
(* variant: a failed copy is rethrown to the caller of the save, whose own  *)
(* catch reports it again                                                  *)
CopyResolved_Rethrows(r, ok) ==
  /\ r.pc = "copy"
  /\ IF ok
       THEN /\ Continue(r, [r EXCEPT !.pc = "save"])
            /\ UNCHANGED error
            /\ NoCallback
       ELSE /\ error' = ErrCapture
            /\ emitted' = <<Thrown, OnError(SaveError(r)), OnError(ErrCapture)>>
            /\ Finish(r)
  /\ UNCHANGED <<cameraType, isRecording, photoPath, cameraPermission,
                 world, env>>

(* variant: the original is deleted right after the copy, before the copy *)
(* is registered with the gallery                                         *)
CopyResolved_UnlinkBeforeSave(r, ok) ==
  /\ r.pc = "copy"
  /\ IF ok
       THEN /\ Continue(r, [r EXCEPT !.pc = "unlink"])
            /\ UNCHANGED error
            /\ NoCallback
       ELSE /\ Catch(SaveError(r))
            /\ Finish(r)
  /\ UNCHANGED <<cameraType, isRecording, photoPath, cameraPermission,
                 world, env>>

(* RNFS.copyFile settles (android) *)
CopyResolved(r, ok) ==
  /\ r.pc = "copy"
  /\ IF ok
       THEN /\ Continue(r, [r EXCEPT !.pc = "save"])
            /\ UNCHANGED error
            /\ NoCallback
       ELSE /\ Catch(SaveError(r))
            /\ Finish(r)
  /\ UNCHANGED <<cameraType, isRecording, photoPath, cameraPermission,
                 world, env>>

(* variant: a failed gallery save also forgets the captured path *)
SaveResolved_RevertPath(r, ok) ==
  /\ r.pc = "save"
  /\ IF ok
       THEN /\ IF platform = "ios"
                 THEN Finish(r) /\ Succeed(r)
                 ELSE Continue(r, [r EXCEPT !.pc = "unlink"]) /\ NoCallback
            /\ UNCHANGED <<error, photoPath>>
       ELSE /\ Catch(SaveError(r))
            /\ photoPath' = NoPath
            /\ Finish(r)
  /\ UNCHANGED <<cameraType, isRecording, cameraPermission, driver, env>>

(* CameraRoll.save settles *)
SaveResolved(r, ok) ==
  /\ r.pc = "save"
  /\ IF ok
       THEN /\ IF platform = "ios"
                 THEN Finish(r) /\ Succeed(r)
                 ELSE Continue(r, [r EXCEPT !.pc = "unlink"]) /\ NoCallback
            /\ UNCHANGED error
       ELSE /\ Catch(SaveError(r))
            /\ Finish(r)
  /\ UNCHANGED <<cameraType, isRecording, photoPath, cameraPermission,
                 world, env>>

(* RNFS.unlink settles (android) *)
UnlinkResolved(r, ok) ==
  /\ r.pc = "unlink"
  /\ IF ok
       THEN UNCHANGED error /\ Succeed(r)
       ELSE Catch(SaveError(r))
  /\ Finish(r)
  /\ UNCHANGED <<cameraType, isRecording, photoPath, cameraPermission,
                 world, env>>

(* -------------------------------- takePhoto ---------------------------- *)
(* variant: takePhoto without the permission check *)
takePhoto_NoPermissionCheck ==
  /\ HasSlot
  /\ Spawn([NewTask("takePhoto", "capture")
              EXCEPT !.gate = cameraPermission, !.cam = CameraMounted,
                     !.drv = IF CameraMounted THEN 1 ELSE 0])
  /\ NoCallback
  /\ UNCHANGED <<hookState, world, env>>

takePhoto ==
  /\ HasSlot
  /\ IF ~cameraPermission
       THEN Spawn([NewTask("takePhoto", "request")
                     EXCEPT !.gate = cameraPermission, !.reqs = 1])
       ELSE Spawn([NewTask("takePhoto", "capture")
                     EXCEPT !.gate = cameraPermission, !.cam = CameraMounted,
                            !.drv = IF CameraMounted THEN 1 ELSE 0])
  /\ NoCallback
  /\ UNCHANGED <<hookState, world, env>>

(* variant: a capture does not overwrite a path that is already set *)
CaptureResolved_FirstWriterWins(r, ok, p) ==
  /\ r.pc = "capture"
  /\ CASE ~r.cam ->
            /\ Finish(r)
            /\ UNCHANGED <<photoPath, error>>
            /\ NoCallback
       [] r.cam /\ ok ->
            /\ photoPath' = IF photoPath = NoPath THEN p ELSE photoPath
            /\ Continue(r, [r EXCEPT !.path = p, !.pc = SaveEntry])
            /\ UNCHANGED error
            /\ NoCallback
       [] OTHER ->
            /\ Catch(ErrCapture)
            /\ Finish(r)
            /\ UNCHANGED photoPath
  /\ UNCHANGED <<cameraType, isRecording, cameraPermission, world, env>>

(* camera.current?.takePhoto() settles *)
CaptureResolved(r, ok, p) ==
  /\ r.pc = "capture"
  /\ CASE ~r.cam ->
            \* photo is undefined: if (photo) is skipped
            /\ Finish(r)
            /\ UNCHANGED <<photoPath, error>>
            /\ NoCallback
       [] r.cam /\ ok ->
            /\ photoPath' = p
            /\ Continue(r, [r EXCEPT !.path = p, !.pc = SaveEntry])
            /\ UNCHANGED error
            /\ NoCallback
       [] OTHER ->
            /\ Catch(ErrCapture)
            /\ Finish(r)
            /\ UNCHANGED photoPath
  /\ UNCHANGED <<cameraType, isRecording, cameraPermission, world, env>>

(* ------------------------------ startRecording ------------------------- *)
(* variant: startRecording without the permission check *)
startRecording_NoPermissionCheck ==
  /\ HasSlot
  /\ Spawn([NewTask("startRecording", "start")
              EXCEPT !.gate = cameraPermission, !.cam = CameraMounted,
                     !.drv = IF CameraMounted THEN 1 ELSE 0])
  /\ NoCallback
  /\ UNCHANGED <<hookState, world, env>>

startRecording ==
  /\ HasSlot
  /\ IF ~cameraPermission
       THEN Spawn([NewTask("startRecording", "request")
                     EXCEPT !.gate = cameraPermission, !.reqs = 1])
       ELSE Spawn([NewTask("startRecording", "start")
                     EXCEPT !.gate = cameraPermission, !.cam = CameraMounted,
                            !.drv = IF CameraMounted THEN 1 ELSE 0])
  /\ NoCallback
  /\ UNCHANGED <<hookState, world, env>>

(* camera.current?.startRecording({...}) settles; the driver refuses a     *)
(* second recording while one is active                                    *)
StartThrows(r, ok) == r.cam /\ ~(ok /\ driver = "idle")

StartResolved(r, ok) ==
  /\ r.pc = "start"
  /\ CASE ~r.cam ->
            \* await undefined, then setIsRecording(true)
            /\ isRecording' = TRUE
            /\ UNCHANGED <<driver, error>>
            /\ NoCallback
       [] r.cam /\ ~StartThrows(r, ok) ->
            /\ driver' = "recording"
            /\ isRecording' = TRUE
            /\ UNCHANGED error
            /\ NoCallback
       [] OTHER ->
            /\ Catch(ErrStart)
            /\ UNCHANGED <<driver, isRecording>>
  /\ Finish(r)
  /\ UNCHANGED <<cameraType, photoPath, cameraPermission, env>>

(* variant: the finished video's path is stored in photoPath *)
onRecordingFinished_StoresPath(p) ==
  /\ driver = "finishing"
  /\ HasSlot
  /\ driver' = "idle"
  /\ photoPath' = p
  /\ NoCallback
  /\ Spawn([NewTask("onRecordingFinished", SaveEntry) EXCEPT !.path = p])
  /\ UNCHANGED <<cameraType, isRecording, cameraPermission, error, env>>

(* the driver has closed the file and calls onRecordingFinished(video),    *)
(* which awaits saveVideoToGallery(video.path)                             *)
onRecordingFinished(p) ==
  /\ driver = "finishing"
  /\ HasSlot
  /\ driver' = "idle"
  /\ Spawn([NewTask("onRecordingFinished", SaveEntry) EXCEPT !.path = p])
  /\ NoCallback
  /\ UNCHANGED <<hookState, env>>

(* the driver aborts the recording and calls onRecordingError(error) *)
onRecordingError ==
  /\ driver = "recording"
  /\ driver' = "idle"
  /\ handleError(ErrRecord)
  /\ UNCHANGED <<cameraType, isRecording, photoPath, cameraPermission,
                 tasks, env>>

(* ------------------------------ stopRecording -------------------------- *)
stopRecording ==
  /\ HasSlot
  /\ Spawn([NewTask("stopRecording", "stop")
              EXCEPT !.cam = CameraMounted,
                     !.drv = IF CameraMounted THEN 1 ELSE 0])
  /\ NoCallback
  /\ UNCHANGED <<hookState, world, env>>

(* camera.current?.stopRecording() settles; the driver throws when no      *)
(* recording is active                                                     *)
StopThrows(r, ok) == r.cam /\ ~(ok /\ driver = "recording")

StopResolved(r, ok) ==
  /\ r.pc = "stop"
  /\ CASE ~r.cam ->
            \* await undefined, then setIsRecording(false)
            /\ isRecording' = FALSE
            /\ UNCHANGED <<driver, error>>
            /\ NoCallback
       [] r.cam /\ ~StopThrows(r, ok) ->
            /\ driver' = "finishing"
            /\ isRecording' = FALSE
            /\ UNCHANGED error
            /\ NoCallback
       [] OTHER ->
            /\ Catch(ErrStop)
            /\ UNCHANGED <<driver, isRecording>>
  /\ Finish(r)
  /\ UNCHANGED <<cameraType, photoPath, cameraPermission, env>>

(* ----------------------------- toggleCameraType ------------------------ *)
Flip(current) == IF current = "back" THEN "front" ELSE "back"

(* variant: the toggle always selects the front camera *)
toggleCameraType_AlwaysFront ==
  /\ cameraType' = "front"
  /\ NoCallback
  /\ UNCHANGED <<isRecording, photoPath, cameraPermission, error,
                 world, env, tasks>>

toggleCameraType ==
  /\ cameraType' = Flip(cameraType)
  /\ NoCallback
  /\ UNCHANGED <<isRecording, photoPath, cameraPermission, error,
                 world, env, tasks>>

Next ==
  \/ requestCameraPermission
  \/ \E r \in InFlight, o \in {"granted", "denied", "throw"} : PermissionResolved(r, o)
  \/ takePhoto
  \/ \E r \in InFlight, ok \in BOOLEAN, p \in Paths : CaptureResolved(r, ok, p)
  \/ \E r \in InFlight, ok \in BOOLEAN : CopyResolved(r, ok)
  \/ \E r \in InFlight, ok \in BOOLEAN : SaveResolved(r, ok)
  \/ \E r \in InFlight, ok \in BOOLEAN : UnlinkResolved(r, ok)
  \/ startRecording
  \/ \E r \in InFlight, ok \in BOOLEAN : StartResolved(r, ok)
  \/ \E p \in VideoPaths : onRecordingFinished(p)
  \/ onRecordingError
  \/ stopRecording
  \/ \E r \in InFlight, ok \in BOOLEAN : StopResolved(r, ok)
  \/ toggleCameraType

Spec == Init /\ [][Next]_vars

(* ======================================================================= *)
(*                               Properties                                *)
(* ======================================================================= *)
TypeOK ==
  /\ cameraType \in CameraTypes
  /\ isRecording \in BOOLEAN
  /\ photoPath \in Paths \cup {NoPath}
  /\ cameraPermission \in BOOLEAN
  /\ error \in {NoError, ErrPermission, ErrSavePhoto, ErrSaveVideo, ErrCapture,
                ErrRecord, ErrStart, ErrStop}
  /\ driver \in {"idle", "recording", "finishing"}
  /\ BagCardinality(tasks) <= MaxTasks
  /\ \A r \in InFlight : r.path \in Paths \cup VideoPaths \cup {NoPath}
  /\ Len(emitted) <= 2

Captures == {"takePhoto", "startRecording"}

(* C1: a takePhoto or startRecording call that read cameraPermission =     *)
(* false has made exactly one requestCameraPermission call and no camera   *)
(* driver call, and it never gets past that request: when the request      *)
(* settles the call returns.                                               *)
C1_NoCaptureWithoutPermission ==
  \A r \in InFlight :
    r.op \in Captures =>
      /\ ~r.gate => r.pc = "request" /\ r.reqs = 1 /\ r.drv = 0 /\ ~r.cam
      /\ r.gate => r.reqs = 0

C1_Witness ==
  /\ \E r \in InFlight : r.op = "takePhoto" /\ ~r.gate /\ r.pc = "request"
  /\ \E r \in InFlight : r.op = "startRecording" /\ ~r.gate /\ r.pc = "request"

(* C2 (as claimed): when startRecording settles without a throw            *)
(* isRecording is true; when stopRecording settles, thrown or not,         *)
(* isRecording is false, and error is set when the driver threw.           *)
C2_StopAlwaysClearsRecording ==
  [][\A r \in InFlight, ok \in BOOLEAN :
       /\ StartResolved(r, ok) /\ ~StartThrows(r, ok) => isRecording'
       /\ StopResolved(r, ok) =>
            /\ ~isRecording'
            /\ StopThrows(r, ok) => error' = ErrStop]_vars

(* C3 (as claimed): when the driver calls onRecordingError while           *)
(* isRecording is true, isRecording is false afterwards and error is       *)
(* "Failed to record video".                                               *)
C3_RecordingErrorClearsRecording ==
  [][onRecordingError /\ isRecording =>
       ~isRecording' /\ error' = ErrRecord]_vars

PersistFails(r) ==
  \/ CopyResolved(r, FALSE)
  \/ SaveResolved(r, FALSE)
  \/ UnlinkResolved(r, FALSE)

(* C4: a successful capture of takePhoto stores the captured path in       *)
(* photoPath and goes on to persist that path; when a persistence step of  *)
(* that photo then fails, error becomes "Failed to save photo" and         *)
(* photoPath keeps the captured path: it is neither reverted nor blocked.  *)
C4_CaptureSurvivesSaveFailure ==
  [][\A r \in InFlight :
       /\ \A p \in Paths :
            CaptureResolved(r, TRUE, p) /\ r.cam =>
              /\ photoPath' = p
              /\ [r EXCEPT !.path = p, !.pc = SaveEntry] \in BagToSet(tasks')
       /\ Kind(r) = "photo" /\ PersistFails(r) =>
            /\ error' = ErrSavePhoto
            /\ photoPath' = photoPath
            /\ photoPath \in Paths]_vars

C4_Witness ==
  /\ photoPath \in Paths
  /\ error = ErrSavePhoto
  /\ tasks = EmptyBag

(* C5: toggleCameraType can be called in every state and always moves      *)
(* cameraType to the other value of {back, front}, so that a second call   *)
(* restores it; a step that changes cameraType changes nothing else: not   *)
(* the permission, recording, photo path or error state, not the driver,   *)
(* and no call in flight.                                                  *)
C5_ToggleFlipsFacingOnly ==
  /\ [](ENABLED (toggleCameraType /\ cameraType' # cameraType))
  /\ [][/\ toggleCameraType =>
             /\ cameraType' \in CameraTypes \ {cameraType}
             /\ Flip(cameraType') = cameraType
        /\ cameraType' # cameraType =>
             UNCHANGED <<isRecording, photoPath, cameraPermission, error,
                         driver, tasks, platform, devices>>]_vars

C5_Witness ==
  /\ cameraType = "front"
  /\ isRecording /\ driver = "recording"
  /\ \E r \in InFlight : r.pc = "capture" /\ r.cam

(* C6: when takePhoto was called without permission and its permission     *)
(* request is denied, photoPath and error are left as they were (an unset  *)
(* error stays unset) and nothing but the permission state is touched; the *)
(* call has made one permission request, no driver call, and returns.      *)
C6_DeniedPhotoChangesNothing ==
  [][\A r \in InFlight :
       r.op = "takePhoto" /\ ~r.gate /\ PermissionResolved(r, "denied") =>
         /\ photoPath' = photoPath
         /\ error' = error
         /\ UNCHANGED <<isRecording, cameraType, driver>>
         /\ ~cameraPermission'
         /\ r.reqs = 1 /\ r.drv = 0
         /\ tasks' = tasks (-) SetToBag({r})]_vars

C6_Witness ==
  /\ photoPath \in Paths
  /\ error = NoError
  /\ ~cameraPermission
  /\ \E r \in InFlight : r.op = "takePhoto" /\ ~r.gate /\ r.pc = "request"

(* an operation completes successfully *)
Succeeds ==
  \E r \in InFlight, ok \in BOOLEAN :
    \/ PermissionResolved(r, "granted")
    \/ StartResolved(r, ok) /\ ~StartThrows(r, ok)
    \/ StopResolved(r, ok) /\ ~StopThrows(r, ok)
    \/ r.op = "takePhoto" /\ r.pc = SaveEntry /\ platform = "ios" /\ SaveResolved(r, TRUE)
    \/ r.op = "takePhoto" /\ UnlinkResolved(r, TRUE)

(* C7 (as claimed): once an operation has failed, the successful           *)
(* completion of a later requestPermission, takePhoto, startRecording or   *)
(* stopRecording leaves error unset.                                       *)
C7_SuccessClearsError ==
  [][Succeeds => error' = NoError]_vars

PersistStep(r) ==
  \E ok \in BOOLEAN : CopyResolved(r, ok) \/ SaveResolved(r, ok) \/ UnlinkResolved(r, ok)

C9_ThrowMeansDenied ==
  [][\A r \in InFlight :
       PermissionResolved(r, "throw") =>
         error' = ErrPermission /\ ~cameraPermission']_vars

(* C10: isRecording is false initially and becomes true only when a        *)
(* startRecording call settles that read cameraPermission = true on entry; *)
(* no call of startRecording reaches the driver call without it.           *)
C10_RecordingNeedsPermission ==
  /\ ~isRecording
  /\ [](\A r \in InFlight : r.pc = "start" => r.op = "startRecording" /\ r.gate)
  /\ [][~isRecording /\ isRecording' =>
          \E r \in InFlight :
            /\ r.op = "startRecording" /\ r.gate /\ r.pc = "start"
            /\ tasks' = tasks (-) SetToBag({r})]_vars

C10_Witness ==
  /\ isRecording
  /\ ~cameraPermission
  /\ driver = "recording"

(* ----------------------------------------------------------------------- *)
(* the platform or driver call that task r awaits throws *)
TaskFails(r) ==
  \/ PermissionResolved(r, "throw")
  \/ r.cam /\ \E p \in Paths : CaptureResolved(r, FALSE, p)
  \/ CopyResolved(r, FALSE)
  \/ SaveResolved(r, FALSE)
  \/ UnlinkResolved(r, FALSE)
  \/ \E ok \in BOOLEAN : StartThrows(r, ok) /\ StartResolved(r, ok)
  \/ \E ok \in BOOLEAN : StopThrows(r, ok) /\ StopResolved(r, ok)

(* the message of the catch block that encloses the call task r awaits *)
CatchMessage(r) ==
  CASE r.pc = "request" -> ErrPermission
    [] r.pc = "capture" -> ErrCapture
    [] r.pc \in {"copy", "save", "unlink"} -> SaveError(r)
    [] r.pc = "start" -> ErrStart
    [] r.pc = "stop" -> ErrStop

(* a log begins with the exception, if there is one *)
Threw(log) == log # <<>> /\ Head(log) = Thrown
ReportsError(log) == \E i \in 1..Len(log) : log[i][1] = "onError"

(* C11: every failure of a platform or driver call is caught inside the   *)
(* operation. Whenever an awaited call has thrown, SessionError holds a   *)
(* message and onError was called exactly once, with that message (a      *)
(* failed save is not reported again by takePhoto); the step that caught  *)
(* the exception is the failing call of one task, it ends that task with  *)
(* the message of the enclosing catch and changes nothing else in the     *)
(* hook; onError is never called twice by one step; and after a failure   *)
(* every operation of the hook can be invoked as long as a call slot is   *)
(* free.                                                                  *)
C11_FailureCaughtReportedOnce ==
  /\ [](Threw(emitted) =>
           error # NoError /\ emitted = <<Thrown, OnError(error)>>)
  /\ [](ReportsError(emitted) =>
           emitted \in {<<OnError(error)>>, <<Thrown, OnError(error)>>})
  /\ [][Threw(emitted') =>
          (/\ \E r \in InFlight :
                 /\ TaskFails(r)
                 /\ error' = CatchMessage(r)
                 /\ tasks' = tasks (-) SetToBag({r})
           /\ UNCHANGED <<cameraType, isRecording, photoPath,
                          cameraPermission, driver>>)]_vars
  /\ [](ReportsError(emitted) /\ HasSlot =>
           /\ ENABLED requestCameraPermission
           /\ ENABLED takePhoto
           /\ ENABLED startRecording
           /\ ENABLED stopRecording
           /\ ENABLED toggleCameraType)

(* a photo was captured, its gallery save failed, and the failure was     *)
(* reported to onError once, by the save                                  *)
C11_Witness ==
  /\ photoPath \in Paths
  /\ error = ErrSavePhoto
  /\ emitted = <<Thrown, OnError(ErrSavePhoto)>>
  /\ platform = "android"
  /\ HasSlot

(* ----------------------------------------------------------------------- *)
PhotoTasks == {r \in InFlight : r.op = "takePhoto"}
(* two takePhoto calls are in flight together *)
TwoPhotosInFlight ==
  \E r \in PhotoTasks : CopiesIn(r, tasks) > 1 \/ PhotoTasks \ {r} # {}

(* the call that task r awaits settles, one way or the other *)
TaskStep(r) ==
  \/ \E o \in {"granted", "denied", "throw"} : PermissionResolved(r, o)
  \/ \E ok \in BOOLEAN, p \in Paths : CaptureResolved(r, ok, p)
  \/ \E ok \in BOOLEAN : CopyResolved(r, ok) \/ SaveResolved(r, ok) \/ UnlinkResolved(r, ok)

(* C12: takePhoto calls in flight together are independent and the last   *)
(* writer wins. takePhoto can be called while another call is in flight,  *)
(* and with two in flight each can take its next step whatever the other  *)
(* is doing; a capture that resolves with a file stores that file's path  *)
(* in photoPath, whatever it held, and goes on to persist the file while  *)
(* every other task in flight is left as it was; photoPath changes at no  *)
(* other step, so it holds the path of the capture that resolved last;    *)
(* and error changes only to the message reported by the step that        *)
(* changes it, so it holds the message of the last failure.               *)
C12_ConcurrentCapturesLastWriterWins ==
  /\ [](PhotoTasks # {} /\ HasSlot => ENABLED takePhoto)
  /\ [](TwoPhotosInFlight => \A r \in PhotoTasks : ENABLED TaskStep(r))
  /\ [][/\ \A r \in InFlight : \A p \in Paths :
             r.pc = "capture" /\ r.cam /\ CaptureResolved(r, TRUE, p) =>
               /\ photoPath' = p
               /\ tasks' = (tasks (-) SetToBag({r}))
                              (+) SetToBag({[r EXCEPT !.path = p, !.pc = SaveEntry]})
        /\ photoPath' # photoPath =>
             \E r \in PhotoTasks :
               r.cam /\ CaptureResolved(r, TRUE, photoPath')
        /\ error' # error =>
             emitted' # <<>> /\ emitted'[Len(emitted')] = OnError(error')]_vars

(* two takePhoto calls have both captured, each its own file, and are     *)
(* persisting them; photoPath holds the path of one of them               *)
C12_Witness ==
  \E r \in PhotoTasks : \E q \in PhotoTasks :
    /\ r.path \in Paths /\ q.path \in Paths
    /\ r.path # q.path
    /\ photoPath = q.path

(* ----------------------------------------------------------------------- *)
SaveSteps == {"copy", "save", "unlink"}
(* the tasks that await a call of the save now and did not before the step *)
Arrived ==
  {t \in BagToSet(tasks') :
     t.pc \in SaveSteps /\ CopiesIn(t, tasks') > CopiesIn(t, tasks)}
IsSuccessCallback(log) ==
  \E i \in 1..Len(log) : log[i][1] \in {"onPhotoTaken", "onVideoRecorded"}

(* C13: on android the gallery save of a file is copy, then registration  *)
(* of the copy, then deletion of the original. A save starts at the copy; *)
(* a successful copy is followed by the registration and a successful     *)
(* registration by the deletion, and a task comes to await the            *)
(* registration or the deletion in no other way, so the original is       *)
(* deleted only after copy and registration succeeded; a failing step     *)
(* reports the save's error and ends the task there, with no later step   *)
(* and no step undone; and the success callback is called by the          *)
(* successful deletion and by no other step.                              *)
C13_AndroidCopyRegisterDelete ==
  [][platform = "android" =>
       /\ \A r \in InFlight : r.pc \in SaveSteps =>
            /\ CopyResolved(r, TRUE) =>
                  /\ tasks' = (tasks (-) SetToBag({r}))
                                 (+) SetToBag({[r EXCEPT !.pc = "save"]})
                  /\ emitted' = <<>> /\ error' = error
            /\ SaveResolved(r, TRUE) =>
                  /\ tasks' = (tasks (-) SetToBag({r}))
                                 (+) SetToBag({[r EXCEPT !.pc = "unlink"]})
                  /\ emitted' = <<>> /\ error' = error
            /\ UnlinkResolved(r, TRUE) =>
                  /\ tasks' = tasks (-) SetToBag({r})
                  /\ emitted' = <<<<SuccessCallback(r), r.path>>>>
                  /\ error' = error
            /\ PersistFails(r) =>
                  /\ tasks' = tasks (-) SetToBag({r})
                  /\ emitted' = <<Thrown, OnError(SaveError(r))>>
                  /\ error' = SaveError(r)
       /\ \A t \in Arrived :
            CASE t.pc = "copy" ->
                   \/ \E p \in VideoPaths : onRecordingFinished(p)
                   \/ \E r \in InFlight : CaptureResolved(r, TRUE, t.path)
              [] t.pc = "save" ->
                   \E r \in InFlight : /\ r.pc = "copy"
                                        /\ CopyResolved(r, TRUE)
                                        /\ t = [r EXCEPT !.pc = "save"]
              [] t.pc = "unlink" ->
                   \E r \in InFlight : /\ r.pc = "save"
                                        /\ SaveResolved(r, TRUE)
                                        /\ t = [r EXCEPT !.pc = "unlink"]
       /\ IsSuccessCallback(emitted') =>
            \E r \in InFlight : r.pc = "unlink" /\ UnlinkResolved(r, TRUE)]_vars

(* on android a photo went through copy, registration and deletion and    *)
(* onPhotoTaken was called                                                *)
C13_Witness ==
  /\ platform = "android"
  /\ \E p \in Paths : emitted = <<<<"onPhotoTaken", p>>>>

(* ----------------------------------------------------------------------- *)
(* C14 (as claimed): whenever isRecording is true the camera driver has a  *)
(* recording in progress.                                                 *)
C14_RecordingMeansDriverRecording ==
  isRecording => driver = "recording"

(* ======================================================================= *)
(*                     useDebounce (src/useDebounce.js)                    *)
(* ======================================================================= *)
(* One component renders useDebounce(value, delay). A render and the       *)
(* effects it schedules are one step: when value or delay differs from the *)
(* last render, the previous effect's cleanup runs, then the effect. Time  *)
(* is counted in ticks; a timeout may fire once its delay has elapsed.     *)
NumValues == 3     \* distinct input values
MaxDelay == 2      \* the longest delay, in ticks

Values == 1..NumValues
Delays == 0..MaxDelay

(* useDebounce: mounted, the arguments of the last render (value, delay),  *)
(* the state debouncedValue, the pending timeouts (timers: the value each  *)
(* callback closed over and the ticks left until it is due), and the ticks *)
(* for which value and delay have been what they are (held, counted up to  *)
(* MaxDelay).                                                              *)
Armed(v, d) == [value |-> v, left |-> d]

DebounceInit ==
  /\ useDebounce \in
       {[mounted |-> TRUE, value |-> v, delay |-> d, debouncedValue |-> v,
         timers |-> {Armed(v, d)}, held |-> 0] : v \in Values, d \in Delays}
  /\ useFetch = NotRendered
  /\ useMediaQuery = NotRendered
  /\ cameraType = "back"
  /\ isRecording = FALSE
  /\ photoPath = NoPath
  /\ cameraPermission = FALSE
  /\ error = NoError
  /\ platform = "ios"
  /\ devices \in DeviceSets
  /\ driver = "idle"
  /\ tasks = EmptyBag
  /\ emitted = <<>>

(* variant: the effect has no cleanup, the previous timeout stays pending *)
DebounceRender_NoCleanup(v, d) ==
  /\ useDebounce.mounted
  /\ <<v, d>> # <<useDebounce.value, useDebounce.delay>>
  /\ useDebounce' = [useDebounce EXCEPT
                       !.value = v, !.delay = d, !.held = 0,
                       !.timers = @ \cup {Armed(v, d)}]
  /\ UNCHANGED <<cameraVars, useFetch, useMediaQuery>>

(* the component renders with another value or delay: clearTimeout(timer)  *)
(* of the previous effect, then setTimeout(() => setDebouncedValue(value), *)
(* delay)                                                                  *)
DebounceRender(v, d) ==
  /\ useDebounce.mounted
  /\ <<v, d>> # <<useDebounce.value, useDebounce.delay>>
  /\ useDebounce' = [useDebounce EXCEPT
                       !.value = v, !.delay = d, !.held = 0,
                       !.timers = {Armed(v, d)}]
  /\ UNCHANGED <<cameraVars, useFetch, useMediaQuery>>

Decrement(n) == IF n > 0 THEN n - 1 ELSE 0
Increment(n) == IF n < MaxDelay THEN n + 1 ELSE MaxDelay

(* one tick of time passes *)
Tick ==
  /\ useDebounce.mounted
  /\ useDebounce' = [useDebounce EXCEPT
                       !.held = Increment(@),
                       !.timers = {[t EXCEPT !.left = Decrement(@)] : t \in @}]
  /\ UNCHANGED <<cameraVars, useFetch, useMediaQuery>>

(* variant: a due timeout is discarded without running its callback *)
TimeoutFires_NoWrite(t) ==
  /\ t \in useDebounce.timers
  /\ t.left = 0
  /\ useDebounce' = [useDebounce EXCEPT !.timers = @ \ {t}]
  /\ UNCHANGED <<cameraVars, useFetch, useMediaQuery>>

(* a timeout that is due runs its callback: setDebouncedValue(value) *)
TimeoutFires(t) ==
  /\ t \in useDebounce.timers
  /\ t.left = 0
  /\ useDebounce' = [useDebounce EXCEPT
                       !.debouncedValue = t.value,
                       !.timers = @ \ {t}]
  /\ UNCHANGED <<cameraVars, useFetch, useMediaQuery>>

(* the component unmounts: the cleanup of the last effect runs *)
DebounceUnmount ==
  /\ useDebounce.mounted
  /\ useDebounce' = [useDebounce EXCEPT !.mounted = FALSE, !.timers = {}]
  /\ UNCHANGED <<cameraVars, useFetch, useMediaQuery>>

DebounceNext ==
  \/ \E v \in Values, d \in Delays : DebounceRender(v, d)
  \/ Tick
  \/ \E t \in useDebounce.timers : TimeoutFires(t)
  \/ DebounceUnmount

DebounceSpec == DebounceInit /\ [][DebounceNext]_vars

(* the event loop runs a due timeout, and time passes *)
DebounceFairSpec ==
  /\ DebounceSpec
  /\ WF_vars(Tick)
  /\ WF_vars(\E t \in useDebounce.timers : TimeoutFires(t))

(* C15: at most one timeout is pending; it exists only while the hook is   *)
(* mounted, carries the value of the last render and was armed when value  *)
(* and delay last changed, so that it is due only after they have been     *)
(* held for the whole delay; and every write of debouncedValue is made by  *)
(* a mounted hook, writes the value of the last render, and comes after    *)
(* that value and delay were held for the whole delay: a superseded value  *)
(* is never written, and nothing is written after unmount.                *)
C15_OneTimerOnlyHeldValueWritten ==
  /\ [](/\ Cardinality(useDebounce.timers) <= 1
        /\ ~useDebounce.mounted => useDebounce.timers = {}
        /\ \A t \in useDebounce.timers :
             /\ t.value = useDebounce.value
             /\ t.left + useDebounce.held >= useDebounce.delay)
  /\ [][\A t \in useDebounce.timers : TimeoutFires(t) =>
          /\ useDebounce.mounted
          /\ useDebounce'.debouncedValue = useDebounce.value
          /\ useDebounce.held >= useDebounce.delay]_vars
  /\ [][useDebounce'.debouncedValue # useDebounce.debouncedValue =>
          \E t \in useDebounce.timers : TimeoutFires(t)]_vars
  /\ [][~useDebounce.mounted => useDebounce' = useDebounce]_vars

(* the value was changed, the timeout was armed again, and the new value's *)
(* whole delay has passed: its timeout is due                              *)
C15_Witness ==
  /\ useDebounce.mounted
  /\ useDebounce.delay = MaxDelay
  /\ \E t \in useDebounce.timers :
       t.left = 0 /\ t.value # useDebounce.debouncedValue

(* C16: if from some point on the hook stays mounted and value and delay   *)
(* no longer change, then from some point on debouncedValue is that value, *)
(* given that time passes and a due timeout runs; and once debouncedValue  *)
(* equals value, it stays so as long as value does not change.            *)
C16_SettlesOnLatestValue ==
  /\ \A v \in Values : \A d \in Delays :
       <>[](useDebounce.mounted /\ useDebounce.value = v /\ useDebounce.delay = d)
         => <>[](useDebounce.debouncedValue = v)
  /\ [][(/\ useDebounce.debouncedValue = useDebounce.value
          /\ useDebounce'.value = useDebounce.value)
          => useDebounce'.debouncedValue = useDebounce.value]_vars

(* the timeout of the last render has run: debouncedValue is the value of *)
(* that render and no timeout is pending                                  *)
C16_Witness ==
  /\ useDebounce.mounted
  /\ useDebounce.timers = {}
  /\ useDebounce.debouncedValue = useDebounce.value
  /\ useDebounce.delay > 0

(* ======================================================================= *)
(*                        useFetch (src/useFetch.js)                       *)
(* ======================================================================= *)
(* One component renders useFetch(url). A render with another url runs the *)
(* effect, which calls fetchData(); the effect has no cleanup. A request   *)
(* is suspended at await fetch(url), then at await response.json().        *)
NumUrls == 2       \* distinct urls
MaxRequests == 2   \* calls of fetchData that may be in flight together

Urls == 1..NumUrls
Null == [null |-> TRUE]
(* the body served at url u, and the error a failed request for u throws *)
Json(u) == [body |-> u]
Failure(u) == [message |-> u]

(* useFetch: the url of the last render, the state data, error, loading,  *)
(* and the bag of fetchData calls in flight (requests: the url each closed *)
(* over and the await it is suspended at).                                *)
Request(u, pc) == [url |-> u, pc |-> pc]

FetchInit ==
  /\ useFetch \in
       {[mounted |-> TRUE, url |-> u, data |-> Null, error |-> Null,
         loading |-> TRUE, requests |-> SetToBag({Request(u, "fetch")})] :
          u \in Urls}
  /\ useDebounce = NotRendered
  /\ useMediaQuery = NotRendered
  /\ cameraType = "back"
  /\ isRecording = FALSE
  /\ photoPath = NoPath
  /\ cameraPermission = FALSE
  /\ error = NoError
  /\ platform = "ios"
  /\ devices \in DeviceSets
  /\ driver = "idle"
  /\ tasks = EmptyBag
  /\ emitted = <<>>

(* the component renders with another url: the effect calls fetchData() *)
FetchRender(u) ==
  /\ u # useFetch.url
  /\ BagCardinality(useFetch.requests) < MaxRequests
  /\ useFetch' = [useFetch EXCEPT
                    !.url = u,
                    !.requests = @ (+) SetToBag({Request(u, "fetch")})]
  /\ UNCHANGED <<cameraVars, useDebounce, useMediaQuery>>

(* await fetch(url) settles: response, or catch + finally *)
FetchSettles(r, ok) ==
  /\ BagIn(r, useFetch.requests)
  /\ r.pc = "fetch"
  /\ useFetch' =
       IF ok
         THEN [useFetch EXCEPT
                 !.requests = (@ (-) SetToBag({r}))
                                (+) SetToBag({Request(r.url, "json")})]
         ELSE [useFetch EXCEPT
                 !.error = Failure(r.url),
                 !.loading = FALSE,
                 !.requests = @ (-) SetToBag({r})]
  /\ UNCHANGED <<cameraVars, useDebounce, useMediaQuery>>

(* await response.json() settles: setData(json) or catch, then finally *)
JsonSettles(r, ok) ==
  /\ BagIn(r, useFetch.requests)
  /\ r.pc = "json"
  /\ useFetch' =
       IF ok
         THEN [useFetch EXCEPT
                 !.data = Json(r.url),
                 !.loading = FALSE,
                 !.requests = @ (-) SetToBag({r})]
         ELSE [useFetch EXCEPT
                 !.error = Failure(r.url),
                 !.loading = FALSE,
                 !.requests = @ (-) SetToBag({r})]
  /\ UNCHANGED <<cameraVars, useDebounce, useMediaQuery>>

FetchNext ==
  \/ \E u \in Urls : FetchRender(u)
  \/ \E r \in BagToSet(useFetch.requests), ok \in BOOLEAN : FetchSettles(r, ok)
  \/ \E r \in BagToSet(useFetch.requests), ok \in BOOLEAN : JsonSettles(r, ok)

FetchSpec == FetchInit /\ [][FetchNext]_vars

(* what a component that reads { data, error, loading } shows once loading *)
(* is over: the error if there is one, else the data                       *)
Exposed ==
  IF useFetch.error # Null THEN useFetch.error ELSE useFetch.data

(* C17 (as claimed): once every request has completed, what the hook      *)
(* exposes is the outcome of the request for the current url: its body or *)
(* its error.                                                             *)
C17_ResultIsForCurrentUrl ==
  useFetch.requests = EmptyBag =>
    Exposed \in {Json(useFetch.url), Failure(useFetch.url)}

(* C18 (as claimed): loading is true whenever a request for the current   *)
(* url is in flight, and when loading is false exactly one of data and    *)
(* error is set.                                                          *)
C18_LoadingTracksCurrentRequest ==
  /\ (\E r \in BagToSet(useFetch.requests) : r.url = useFetch.url)
       => useFetch.loading
  /\ ~useFetch.loading => (useFetch.data = Null) # (useFetch.error = Null)

(* ======================================================================= *)
(*                   useMediaQuery (src/useMediaQuery.js)                  *)
(* ======================================================================= *)
(* One component renders useMediaQuery(query). The window holds, for every *)
(* query, whether the media matches it now (media) and the change          *)
(* listeners registered on its media query list (listeners: a bag of       *)
(* queries, one copy per registered listener).                             *)
NumQueries == 4    \* distinct media queries

Queries == 1..NumQueries

MediaInit ==
  /\ useMediaQuery \in
       {[mounted |-> TRUE, query |-> q, matches |-> m[q],
         listeners |-> SetToBag({q}), media |-> m] :
          q \in Queries, m \in [Queries -> BOOLEAN]}
  /\ useDebounce = NotRendered
  /\ useFetch = NotRendered
  /\ cameraType = "back"
  /\ isRecording = FALSE
  /\ photoPath = NoPath
  /\ cameraPermission = FALSE
  /\ error = NoError
  /\ platform = "ios"
  /\ devices \in DeviceSets
  /\ driver = "idle"
  /\ tasks = EmptyBag
  /\ emitted = <<>>

(* variant: the effect has no cleanup, the previous listener stays *)
MediaRender_NoCleanup(q) ==
  /\ useMediaQuery.mounted
  /\ q # useMediaQuery.query
  /\ useMediaQuery' = [useMediaQuery EXCEPT
                         !.query = q,
                         !.listeners = @ (+) SetToBag({q})]
  /\ UNCHANGED <<cameraVars, useDebounce, useFetch>>

(* the component renders with another query: removeEventListener on the   *)
(* previous media query list, then addEventListener on the new one; the   *)
(* state matches is not read again                                        *)
MediaRender(q) ==
  /\ useMediaQuery.mounted
  /\ q # useMediaQuery.query
  /\ useMediaQuery' = [useMediaQuery EXCEPT
                         !.query = q,
                         !.listeners = (@ (-) SetToBag({useMediaQuery.query}))
                                         (+) SetToBag({q})]
  /\ UNCHANGED <<cameraVars, useDebounce, useFetch>>

(* the media starts or stops matching query q: its media query list       *)
(* dispatches change, and a listener on it runs setMatches(e.matches)     *)
MediaChanges(q) ==
  /\ useMediaQuery' = [useMediaQuery EXCEPT
                         !.media[q] = ~@,
                         !.matches = IF BagIn(q, useMediaQuery.listeners)
                                       THEN ~useMediaQuery.media[q]
                                       ELSE @]
  /\ UNCHANGED <<cameraVars, useDebounce, useFetch>>

(* the component unmounts: the cleanup of the last effect runs *)
MediaUnmount ==
  /\ useMediaQuery.mounted
  /\ useMediaQuery' = [useMediaQuery EXCEPT
                         !.mounted = FALSE,
                         !.listeners = @ (-) SetToBag({useMediaQuery.query})]
  /\ UNCHANGED <<cameraVars, useDebounce, useFetch>>

MediaNext ==
  \/ \E q \in Queries : MediaRender(q)
  \/ \E q \in Queries : MediaChanges(q)
  \/ MediaUnmount

MediaSpec == MediaInit /\ [][MediaNext]_vars

(* C19: at most one change listener is registered at any time; while the  *)
(* hook is mounted it is the one on the media query list of the current   *)
(* query, and after unmount none remains; matches changes only when the   *)
(* current query's list dispatches change to a mounted hook, and it then  *)
(* takes that event's value: a change of any other query leaves it alone. *)
C19_OneListenerOnCurrentQuery ==
  /\ [](/\ BagCardinality(useMediaQuery.listeners) <= 1
        /\ useMediaQuery.mounted =>
             useMediaQuery.listeners = SetToBag({useMediaQuery.query})
        /\ ~useMediaQuery.mounted => useMediaQuery.listeners = EmptyBag)
  /\ [][useMediaQuery'.matches # useMediaQuery.matches =>
          /\ useMediaQuery.mounted
          /\ MediaChanges(useMediaQuery.query)
          /\ useMediaQuery'.matches = useMediaQuery'.media[useMediaQuery.query]]_vars
  /\ [][\A q \in Queries \ {useMediaQuery.query} :
          MediaChanges(q) => useMediaQuery'.matches = useMediaQuery.matches]_vars

(* the query was changed (matches still holds the previous query's value) *)
(* and the one listener is on the new query's list                        *)
C19_Witness ==
  /\ useMediaQuery.mounted
  /\ useMediaQuery.listeners = SetToBag({useMediaQuery.query})
  /\ useMediaQuery.matches # useMediaQuery.media[useMediaQuery.query]
====
